---- MODULE Spec2Model ----
(***************************************************************************)
(* rvspecfit: the non-linear refinement controller vel_fit.process and the *)
(* batch driver desi_fit.proc_many / proc_desi_wrapper / proc_desi.        *)
(*                                                                         *)
(* Numbers.  Velocities, velocity steps and vsini are fixed-point integers *)
(* in units of 0.01 km/s (so 5 km/s is 500, 0.2 km/s is 20 and 1e-2 km/s   *)
(* is 1).  A float that may be NaN is a record [nan, v].  Python's None is *)
(* the record NoneV, a present value x is Some(x).                         *)
(***************************************************************************)
EXTENDS Integers, Sequences, FiniteSets, TLC

VARIABLES
    \* ---- vel_fit.process ----
    pc,            \* position in process
    config,        \* the config argument: NoConfig or a mapping option -> value
    paramDict0,    \* the paramDict0 argument: mapping name -> value
    fixParam,      \* the fixParam argument: set of names
    min_vel, max_vel,            \* locals, lines 59-60, narrowed at 206-207 (floats)
    vel_step0, min_vel_step,     \* locals, lines 61, 64
    min_vsini, max_vsini,        \* locals, lines 62-63
    fitVsini, rot_params,        \* locals, lines 84-92
    best_vel,      \* local best_vel (float)
    res_x,         \* the vector paramMapper was last applied to (p at line 140, res['x'] at 163)
    best_param,    \* paramMapper(res['x']), line 163
    ret,           \* the result dictionary being built: mapping key -> value
    vel_step,      \* local vel_step (float)
    vels_grid,     \* the grid last handed to find_best (sequence of integers)
    res1_vel_err,  \* res1['vel_err'] of the last find_best of the scan (float)
    iters,         \* completed passes through the while body
    hessian,       \* what inverting the numerical Hessian came to, "" before
    warned,        \* 'Warning velocity too large...' was printed
    called,        \* which collaborators have been called so far
    error,         \* the exception process ended with, "" for none
    \* ---- desi_fit.proc_many ----
    bpc,           \* position in proc_many
    parallel,      \* nthreads > 1
    fidx,          \* index of the next file of the for loop
    fut,           \* per file: state of its proc_desi_wrapper call / future
    objs,          \* per file: the objects (rows of FIBERMAP with MWS_TARGET) it holds
    nextobj,       \* per file: index of the next object of the for loop of proc_desi
    outdict,       \* per file: number of entries of each column of outdict
    fitted,        \* per file: number of objects vel_fit.process returned a result for
    table,         \* per file: the table written (column lengths) or NoTable
    logged         \* files whose failure proc_desi_wrapper printed

pvars == <<pc, config, paramDict0, fixParam, min_vel, max_vel, vel_step0,
           min_vel_step, min_vsini, max_vsini, fitVsini, rot_params, best_vel,
           res_x, best_param, ret, vel_step, vels_grid, res1_vel_err, iters,
           hessian, warned, called, error>>
bvars == <<bpc, parallel, fidx, fut, objs, nextobj, outdict, fitted, table, logged>>
vars == <<pvars, bvars>>

-----------------------------------------------------------------------------
(* Python values *)

NoneV == [some |-> FALSE, v |-> 0]
Some(x) == [some |-> TRUE, v |-> x]

NaN == [nan |-> TRUE, v |-> 0]
F(x) == [nan |-> FALSE, v |-> x]

\* a < b on floats: every comparison with NaN is False
FLt(a, b) == ~a.nan /\ ~b.nan /\ a.v < b.v
FGt(a, b) == FLt(b, a)
\* the builtin max(a, b) / min(a, b): the first argument unless the second beats it
PyMax(a, b) == IF FGt(b, a) THEN b ELSE a
PyMin(a, b) == IF FLt(b, a) THEN b ELSE a
FAdd(a, b) == IF a.nan \/ b.nan THEN NaN ELSE F(a.v + b.v)
FSub(a, b) == IF a.nan \/ b.nan THEN NaN ELSE F(a.v - b.v)

-----------------------------------------------------------------------------
(* Configuration, vel_fit.py lines 58-67 *)

DefaultMinVel == -100000
DefaultMaxVel == 100000
DefaultVelStep0 == 500
DefaultMaxVsini == 50000
DefaultMinVsini == 1
DefaultMinVelStep == 20

Options == {"min_vel", "max_vel", "vel_step0", "max_vsini", "min_vsini", "min_vel_step"}

Default(o) ==
    CASE o = "min_vel" -> DefaultMinVel
      [] o = "max_vel" -> DefaultMaxVel
      [] o = "vel_step0" -> DefaultVelStep0
      [] o = "max_vsini" -> DefaultMaxVsini
      [] o = "min_vsini" -> DefaultMinVsini
      [] o = "min_vel_step" -> DefaultMinVelStep

EmptyMap == [x \in {} |-> 0]
NoConfig == [none |-> TRUE, map |-> EmptyMap]
Config(m) == [none |-> FALSE, map |-> m]

\* dict.get(key): the value, or None when the key is absent
DictGet(m, k) == IF k \in DOMAIN m THEN Some(m[k]) ELSE NoneV

\* Python's `x or d`: d when x is falsy (None or 0), else x
PyOr(x, d) == IF x.some /\ x.v # 0 THEN x.v ELSE d

\* config.get(o) or default
ReadOption(cfg, o) == PyOr(DictGet(cfg.map, o), Default(o))

-----------------------------------------------------------------------------
(* The vsini transform, vel_fit.py lines 69-75 *)

IMax(a, b) == IF a >= b THEN a ELSE b
IMin(a, b) == IF a <= b THEN a ELSE b
Abs(a) == IF a >= 0 THEN a ELSE -a

\* np.clip(a, lo, hi) = minimum(maximum(a, lo), hi)
NpClip(a, lo, hi) == IMin(IMax(a, lo), hi)

\* The vsini values (0.01 km/s) on which np.log is tabulated, and np.log of
\* each in units of 0.001 (of the value in km/s): ln 0.01, ln 1, ln 2, ln 3,
\* ln 5, ln 500.
VsiniGrid == {1, 100, 200, 300, 500, 50000}
LnTable == (1 :> -4605) @@ (100 :> 0) @@ (200 :> 693) @@ (300 :> 1099)
           @@ (500 :> 1609) @@ (50000 :> 6215)

NpLog(v) == LnTable[v]

\* np.exp(x), rounded down onto the tabulated values; 0 stands for a positive
\* value below all of them
NpExp(x) ==
    LET below == {v \in VsiniGrid : LnTable[v] <= x}
    IN  IF below = {} THEN 0
        ELSE CHOOSE v \in below : \A w \in below : w <= v

mapVsini(vsini, lo, hi) == NpLog(NpClip(vsini, lo, hi))
mapVsiniInv(x, lo, hi) == NpClip(NpExp(x), lo, hi)

\* np.allclose(a, b): |a - b| <= atol + rtol * |b| with rtol = 1e-5; atol = 1e-8
\* is below the resolution of the model
NpAllClose(a, b) == 100000 * Abs(a - b) <= Abs(b)

\* the literal 3 (km/s) of the self-check of line 75
SelfCheckVsini == 300

\* assert (np.allclose(mapVsiniInv(mapVsini(3)), 3))
SelfCheckHolds(lo, hi) ==
    NpAllClose(mapVsiniInv(mapVsini(SelfCheckVsini, lo, hi), lo, hi), SelfCheckVsini)

-----------------------------------------------------------------------------
(* Velocity grids *)

\* ceil(a / b) for b # 0
CeilDiv(a, b) ==
    LET n == IF b > 0 THEN a ELSE -a
        d == Abs(b)
    IN  -((-n) \div d)

\* np.arange(start, stop, step), step # 0
NpArange(start, stop, step) ==
    LET n == CeilDiv(stop - start, step)
    IN  IF n <= 0 THEN <<>> ELSE [i \in 1..n |-> start + (i - 1) * step]

Reverse(s) == [i \in 1..Len(s) |-> s[Len(s) + 1 - i]]

\* the grid of the scan, lines 191-193
ScanGrid(bv, lo, hi, step) ==
    Reverse(NpArange(bv, lo, -step)) \o NpArange(bv + step, hi, step)

-----------------------------------------------------------------------------
(* Parameters, vel_fit.py lines 78-137 *)

\* spec_inter.getSpecParams(...): the declared parameter space, in order
specParams == <<"logg", "teff", "feh", "alpha">>

\* lines 84-92
FitVsini(pd0, fixP) == "vsini" \in DOMAIN pd0 /\ "vsini" \notin fixP
RotParams(pd0) == IF "vsini" \in DOMAIN pd0 THEN Some(pd0["vsini"]) ELSE NoneV

Raise(e) == [ok |-> FALSE, err |-> e, vel |-> 0, vsini |-> NoneV,
             rot_params |-> NoneV, params |-> <<>>]

\* the loop of lines 122-126 over specParams[i..], rest being p0rev (front first)
RECURSIVE MapParams(_, _, _, _, _)
MapParams(i, rest, acc, pd0, fixP) ==
    IF i > Len(specParams) THEN [err |-> "", params |-> acc, rest |-> rest]
    ELSE IF specParams[i] \in fixP
         THEN IF specParams[i] \in DOMAIN pd0
              THEN MapParams(i + 1, rest, Append(acc, pd0[specParams[i]]), pd0, fixP)
              ELSE [err |-> "KeyError", params |-> acc, rest |-> rest]
         ELSE IF Len(rest) = 0
              THEN [err |-> "IndexError", params |-> acc, rest |-> rest]
              ELSE MapParams(i + 1, Tail(rest), Append(acc, Head(rest)), pd0, fixP)

\* paramMapper(p0), lines 103-128
paramMapper(p0, fitV, pd0, fixP, lo, hi) ==
    IF Len(p0) = 0 THEN Raise("IndexError")
    ELSE LET vel == Head(p0)
             r1 == Tail(p0)
         IN  IF fitV /\ Len(r1) = 0 THEN Raise("IndexError")
             ELSE IF ~fitV /\ "vsini" \in fixP /\ "vsini" \notin DOMAIN pd0
                  THEN Raise("KeyError")
             ELSE LET vs == IF fitV THEN Some(mapVsiniInv(Head(r1), lo, hi))
                            ELSE IF "vsini" \in fixP THEN Some(pd0["vsini"])
                            ELSE NoneV
                      r2 == IF fitV THEN Tail(r1) ELSE r1
                      m == MapParams(1, r2, <<>>, pd0, fixP)
                  IN  IF m.err # "" THEN Raise(m.err)
                      ELSE IF Len(m.rest) # 0 THEN Raise("AssertionError")
                      ELSE [ok |-> TRUE, err |-> "", vel |-> vel, vsini |-> vs,
                            rot_params |-> vs, params |-> m.params]

\* the free physical parameters of paramDict0, lines 135-137
RECURSIVE FreeParams(_, _, _)
FreeParams(i, pd0, fixP) ==
    IF i > Len(specParams) THEN <<>>
    ELSE (IF specParams[i] \in fixP THEN <<>> ELSE <<pd0[specParams[i]]>>)
         \o FreeParams(i + 1, pd0, fixP)

\* startParam, lines 130-137
StartParam(bv, fitV, pd0, fixP, lo, hi) ==
    <<bv>> \o (IF fitV THEN <<mapVsini(pd0["vsini"], lo, hi)>> ELSE <<>>)
           \o FreeParams(1, pd0, fixP)

-----------------------------------------------------------------------------
(* Inputs of process *)

MaxScanIters == 20

\* configurations: none at all, the empty mapping, and mappings that set some
\* of the options (0.01 km/s)
Configs ==
    { NoConfig,
      Config(EmptyMap),
      Config(("min_vel" :> 0) @@ ("max_vel" :> 4000)),
      Config(("min_vel" :> -3000) @@ ("max_vel" :> 0) @@ ("vel_step0" :> 1000)),
      Config(("min_vel" :> -2000) @@ ("max_vel" :> 2000) @@ ("vel_step0" :> 400)
             @@ ("min_vel_step" :> 100) @@ ("min_vsini" :> 100) @@ ("max_vsini" :> 500)),
      Config(("min_vel" :> -2000) @@ ("max_vel" :> 2000) @@ ("max_vsini" :> 200)),
      Config(("min_vel" :> -2000) @@ ("max_vel" :> 2000) @@ ("min_vsini" :> 0)
             @@ ("min_vel_step" :> 0) @@ ("vel_step0" :> 0) @@ ("max_vsini" :> 0)) }

BaseParams == ("logg" :> 3) @@ ("teff" :> 5000) @@ ("feh" :> -1) @@ ("alpha" :> 0)
ParamDicts == { BaseParams, BaseParams @@ ("vsini" :> 300), BaseParams @@ ("vsini" :> 0) }
FixParams == { {}, {"vsini"}, {"feh", "vsini"} }

\* what find_best may report as the best velocity of a grid: one of its points
SeedVels(grid) == { grid[1], grid[(Len(grid) + 1) \div 2], grid[Len(grid)] }

\* what scipy.optimize.minimize may return for the start vector x0: a vector of
\* the same length; its velocity may lie outside [min_vel, max_vel] (func is
\* 1e30 there, but nothing constrains the simplex)
MinimizerOut(x0, lo, hi, step) ==
    { [i \in 1..Len(x0) |-> IF i = 1 THEN v ELSE x0[i]] :
        v \in {lo - step, lo, x0[1], hi, hi + step} }

\* what find_best may report as vel_err for a scan at step s
VelErrs(s) ==
    IF s.nan THEN {NaN, F(0)}
    ELSE {NaN, F(-100), F(0), F(5 * s.v), F(5 * s.v + 1)}

HessianOutcomes == {"invertible", "singular", "negative_diagonal"}

-----------------------------------------------------------------------------
(* vel_fit.process *)

crit_ratio == 5

Fail(e) == /\ pc' = "failed"
           /\ error' = e

\* lines 59-64: the six options are read from config
ReadConfig ==
    /\ pc = "start"
    /\ IF config.none
       THEN /\ Fail("AttributeError")
            /\ UNCHANGED <<min_vel, max_vel, vel_step0, max_vsini, min_vsini, min_vel_step>>
       ELSE /\ min_vel' = F(ReadOption(config, "min_vel"))
            /\ max_vel' = F(ReadOption(config, "max_vel"))
            /\ vel_step0' = ReadOption(config, "vel_step0")
            /\ max_vsini' = ReadOption(config, "max_vsini")
            /\ min_vsini' = ReadOption(config, "min_vsini")
            /\ min_vel_step' = ReadOption(config, "min_vel_step")
            /\ pc' = "config_read"
            /\ UNCHANGED error
    /\ UNCHANGED <<config, paramDict0, fixParam, fitVsini, rot_params, best_vel,
                   best_param, ret, vel_step, vels_grid, res1_vel_err, iters,
                   hessian, warned, called, res_x, bvars>>

\* lines 66-67
CheckConfig ==
    /\ pc = "config_read"
    /\ IF config.none
       THEN Fail("Exception: Config must be provided")
       ELSE /\ pc' = "config_checked"
            /\ UNCHANGED error
    /\ UNCHANGED <<config, paramDict0, fixParam, min_vel, max_vel, vel_step0,
                   min_vel_step, min_vsini, max_vsini, fitVsini, rot_params,
                   best_vel, best_param, ret, vel_step, vels_grid, res1_vel_err,
                   iters, hessian, warned, called, res_x, bvars>>

\* lines 69-75: the transform is defined and self-checked
SelfCheck ==
    /\ pc = "config_checked"
    /\ IF SelfCheckHolds(min_vsini, max_vsini)
       THEN /\ pc' = "self_checked"
            /\ UNCHANGED error
       ELSE Fail("AssertionError")
    /\ UNCHANGED <<config, paramDict0, fixParam, min_vel, max_vel, vel_step0,
                   min_vel_step, min_vsini, max_vsini, fitVsini, rot_params,
                   best_vel, best_param, ret, vel_step, vels_grid, res1_vel_err,
                   iters, hessian, warned, called, res_x, bvars>>

\* lines 77-101: the coarse grid, the vsini split and the seed velocity
Seed ==
    /\ pc = "self_checked"
    /\ LET grid == NpArange(min_vel.v, max_vel.v, vel_step0)
       IN  /\ vels_grid' = grid
           /\ fitVsini' = FitVsini(paramDict0, fixParam)
           /\ rot_params' = RotParams(paramDict0)
           /\ called' = called \cup {"find_best"}
           /\ IF Len(grid) = 0
              THEN /\ Fail("ValueError")
                   /\ UNCHANGED best_vel
              ELSE /\ \E v \in SeedVels(grid) : best_vel' = F(v)
                   /\ pc' = "seeded"
                   /\ UNCHANGED error
    /\ UNCHANGED <<config, paramDict0, fixParam, min_vel, max_vel, vel_step0,
                   min_vel_step, min_vsini, max_vsini, best_param, ret, vel_step,
                   res1_vel_err, iters, hessian, warned, res_x, bvars>>

\* lines 130-169: the start vector, the minimizer and the result's first keys
Minimize ==
    /\ pc = "seeded"
    /\ called' = called \cup {"minimize", "get_chisq"}
    /\ LET x0 == StartParam(best_vel.v, fitVsini, paramDict0, fixParam, min_vsini, max_vsini)
       IN  \E x \in MinimizerOut(x0, min_vel.v, max_vel.v, vel_step0) :
             LET bp == paramMapper(x, fitVsini, paramDict0, fixParam, min_vsini, max_vsini)
             IN  IF ~bp.ok
                 THEN /\ Fail(bp.err)
                      /\ res_x' = x
                      /\ UNCHANGED <<best_param, ret, best_vel>>
                 ELSE /\ best_param' = bp
                      /\ res_x' = x
                      /\ ret' = ("param" :> bp.params) @@ ("vel" :> F(bp.vel))
                                @@ (IF fitVsini THEN ("vsini" :> bp.vsini.v) ELSE EmptyMap)
                      /\ best_vel' = F(bp.vel)
                      /\ pc' = "minimized"
                      /\ UNCHANGED error
    /\ UNCHANGED <<config, paramDict0, fixParam, min_vel, max_vel, vel_step0,
                   min_vel_step, min_vsini, max_vsini, fitVsini, rot_params,
                   vel_step, vels_grid, res1_vel_err, iters, hessian, warned, bvars>>

\* lines 178-189: the velocity is limited to [min_vel, max_vel]; the scan starts
ClampVelocity ==
    /\ pc = "minimized"
    /\ IF FGt(best_vel, max_vel) \/ FLt(best_vel, min_vel)
       THEN /\ warned' = TRUE
            /\ best_vel' = IF FGt(best_vel, max_vel) THEN max_vel ELSE min_vel
       ELSE UNCHANGED <<warned, best_vel>>
    /\ vel_step' = F(vel_step0)
    /\ pc' = "scan"
    /\ UNCHANGED <<config, paramDict0, fixParam, min_vel, max_vel, vel_step0,
                   min_vel_step, min_vsini, max_vsini, fitVsini, rot_params,
                   best_param, ret, vels_grid, res1_vel_err, iters, hessian,
                   called, error, res_x, bvars>>

\* line 201 with crit_ratio left out of the first test
ScanBreakNoRatio(step, vel_err, floor) ==
    FLt(step, vel_err) \/ FLt(step, F(floor))

\* line 201
ScanBreak(step, vel_err, floor) ==
    FLt(F(crit_ratio * step.v), vel_err) \/ FLt(step, F(floor))

\* line 204: max(vel_err, vel_step) / crit_ratio * 0.8
NextStep(step, vel_err) ==
    LET m == PyMax(vel_err, step)
    IN  IF m.nan THEN NaN ELSE F((m.v * 8) \div (crit_ratio * 10))

\* line 205: max(vel_err, vel_step) * 10 with the new vel_step
NewWidth(step, vel_err) ==
    LET m == PyMax(vel_err, step)
    IN  IF m.nan THEN NaN ELSE F(m.v * 10)

\* one pass through the body of the while loop, lines 190-207
ScanIter ==
    /\ pc = "scan"
    /\ iters < MaxScanIters
    /\ iters' = iters + 1
    /\ \E arange \in {"raises", "empty"} :
         LET undefined == vel_step.nan \/ min_vel.nan \/ max_vel.nan \/ best_vel.nan
         IN  IF (undefined /\ arange = "raises") \/ (~undefined /\ vel_step.v = 0)
             THEN /\ Fail("ValueError")
                  /\ UNCHANGED <<vels_grid, res1_vel_err, vel_step, min_vel, max_vel, called>>
             ELSE /\ vels_grid' = IF undefined THEN <<>>
                                  ELSE ScanGrid(best_vel.v, min_vel.v, max_vel.v, vel_step.v)
                  /\ called' = called \cup {"find_best"}
                  /\ \E e \in VelErrs(vel_step) :
                       /\ res1_vel_err' = e
                       /\ IF ScanBreak(vel_step, e, min_vel_step)
                          THEN /\ pc' = "scanned"
                               /\ UNCHANGED <<vel_step, min_vel, max_vel>>
                          ELSE /\ vel_step' = NextStep(vel_step, e)
                               /\ min_vel' = PyMax(FSub(best_vel, NewWidth(vel_step', e)), min_vel)
                               /\ max_vel' = PyMin(FAdd(best_vel, NewWidth(vel_step', e)), max_vel)
                               /\ pc' = "scan"
                  /\ UNCHANGED error
    /\ UNCHANGED <<config, paramDict0, fixParam, vel_step0, min_vel_step,
                   min_vsini, max_vsini, fitVsini, rot_params, best_vel,
                   best_param, ret, hessian, warned, res_x, bvars>>

\* lines 208-219: the scan's moments and the chi-square at best_vel
RecordScan ==
    /\ pc = "scanned"
    /\ ret' = ret @@ ("vel_err" :> res1_vel_err) @@ ("skewness" :> 0) @@ ("kurtosis" :> 0)
    /\ called' = called \cup {"get_chisq"}
    /\ pc' = "hessian"
    /\ UNCHANGED <<config, paramDict0, fixParam, min_vel, max_vel, vel_step0,
                   min_vel_step, min_vsini, max_vsini, fitVsini, rot_params,
                   best_vel, best_param, vel_step, vels_grid, res1_vel_err,
                   iters, hessian, warned, error, res_x, bvars>>

\* lines 221-243: the Hessian, its inverse, the parameter errors and the return.
\* scipy.linalg.inv raises LinAlgError for a singular matrix; np.sqrt of a
\* negative diagonal entry is NaN.  yfit, chisq and chisq_array come from the
\* get_chisq of line 212 and are recorded here by the velocity they were
\* evaluated at.
ParamErrors ==
    /\ pc = "hessian"
    /\ \E h \in HessianOutcomes :
         /\ hessian' = h
         /\ IF h = "singular"
            THEN /\ Fail("LinAlgError")
                 /\ UNCHANGED ret
            ELSE /\ ret' = ret @@ ("param_err" :> (IF h = "invertible" THEN F(1) ELSE NaN))
                               @@ ("yfit" :> best_vel) @@ ("chisq" :> best_vel)
                               @@ ("chisq_array" :> best_vel)
                 /\ pc' = "done"
                 /\ UNCHANGED error
    /\ UNCHANGED <<config, paramDict0, fixParam, min_vel, max_vel, vel_step0,
                   min_vel_step, min_vsini, max_vsini, fitVsini, rot_params,
                   best_vel, best_param, vel_step, vels_grid, res1_vel_err,
                   iters, warned, called, res_x, bvars>>

-----------------------------------------------------------------------------
(* One call of process *)

ProcessIdle ==
    /\ pc = "idle"
    /\ config = NoConfig
    /\ paramDict0 = BaseParams
    /\ fixParam = {}
    /\ min_vel = F(0) /\ max_vel = F(0)
    /\ vel_step0 = 0 /\ min_vel_step = 0
    /\ min_vsini = 0 /\ max_vsini = 0
    /\ fitVsini = FALSE /\ rot_params = NoneV
    /\ best_vel = F(0)
    /\ res_x = <<>>
    /\ best_param = Raise("")
    /\ ret = EmptyMap
    /\ vel_step = F(0)
    /\ vels_grid = <<>>
    /\ res1_vel_err = F(0)
    /\ iters = 0
    /\ hessian = ""
    /\ warned = FALSE
    /\ called = {}
    /\ error = ""

BatchIdle ==
    /\ bpc = "idle"
    /\ parallel = FALSE
    /\ fidx = 0
    /\ fut = EmptyMap
    /\ objs = EmptyMap
    /\ nextobj = EmptyMap
    /\ outdict = EmptyMap
    /\ fitted = EmptyMap
    /\ table = EmptyMap
    /\ logged = {}

Init ==
    /\ pc = "start"
    /\ config \in Configs
    /\ paramDict0 \in ParamDicts
    /\ fixParam \in FixParams
    /\ min_vel = F(0) /\ max_vel = F(0)
    /\ vel_step0 = 0 /\ min_vel_step = 0
    /\ min_vsini = 0 /\ max_vsini = 0
    /\ fitVsini = FALSE /\ rot_params = NoneV
    /\ best_vel = F(0)
    /\ res_x = <<>>
    /\ best_param = Raise("")
    /\ ret = EmptyMap
    /\ vel_step = F(0)
    /\ vels_grid = <<>>
    /\ res1_vel_err = F(0)
    /\ iters = 0
    /\ hessian = ""
    /\ warned = FALSE
    /\ called = {}
    /\ error = ""
    /\ BatchIdle

Next ==
    \/ ReadConfig
    \/ CheckConfig
    \/ SelfCheck
    \/ Seed
    \/ Minimize
    \/ ClampVelocity
    \/ ScanIter
    \/ RecordScan
    \/ ParamErrors

Spec == Init /\ [][Next]_vars

-----------------------------------------------------------------------------
(* desi_fit: proc_many, proc_desi_wrapper, proc_desi *)

NumFiles == 2
PoolSize == 2
Files == 1..NumFiles

\* lines 130-137: the columns of outdict
Columns == {"brickname", "target_id", "vrad", "vrad_err", "logg", "teff", "vsini",
            "feh", "alpha", "chisq_tot", "sn_b", "chisq_b", "chisq_c_b", "sn_r",
            "chisq_r", "chisq_c_r", "sn_z", "chisq_z", "chisq_c_z"}

\* the keys of the dictionary process returns, vel_fit.py lines 164-168, 209-211
\* and 238-242
ResultKeys(pd0, fixP) ==
    {"param", "vel", "vel_err", "skewness", "kurtosis", "param_err", "yfit",
     "chisq", "chisq_array"}
    \cup (IF FitVsini(pd0, fixP) THEN {"vsini"} ELSE {})

\* An object of a file: whether the fit_targetid filter lets it through (line
\* 146), what fitter_ccf.fit reports as best_vsini (line 163), and whether
\* vel_fit.process or a collaborator raises for it.
Obj(t, v, r) == [targeted |-> t, best_vsini |-> v, raises |-> r]
ObjFits == Obj(TRUE, Some(300), FALSE)
ObjNoVsini == Obj(TRUE, NoneV, FALSE)
ObjRaises == Obj(TRUE, Some(300), TRUE)
ObjFiltered == Obj(FALSE, Some(300), FALSE)

\* A file: whether its products exist and overwrite is off (line 248), whether
\* valid_file accepts it (line 112), and its objects.
File(s, v, o) == [skip |-> s, valid |-> v, objects |-> o]
FileKinds ==
    { File(TRUE, TRUE, <<ObjFits>>),
      File(FALSE, FALSE, <<ObjFits>>),
      File(FALSE, TRUE, <<ObjFits, ObjFits>>),
      File(FALSE, TRUE, <<ObjFits, ObjFiltered>>),
      File(FALSE, TRUE, <<ObjNoVsini, ObjFits>>),
      File(FALSE, TRUE, <<ObjFits, ObjNoVsini>>),
      File(FALSE, TRUE, <<ObjRaises, ObjFits>>),
      File(FALSE, TRUE, <<ObjFits, ObjRaises>>) }

NoTable == [written |-> FALSE, cols |-> EmptyMap]
EmptyOutdict == [c \in Columns |-> 0]

\* lines 165-168 of proc_desi: the paramDict0 handed to process
ParamDictOf(o) ==
    IF o.best_vsini.some THEN BaseParams @@ ("vsini" :> o.best_vsini.v) ELSE BaseParams

Running == {f \in Files : fut[f] \in {"called", "objects", "raising"}}

\* lines 244-258: one pass of the for loop over the files
NextFile ==
    /\ bpc = "loop"
    /\ fidx <= NumFiles
    /\ fidx' = fidx + 1
    /\ IF objs[fidx].skip
       THEN /\ fut' = [fut EXCEPT ![fidx] = "skipped"]
            /\ UNCHANGED bpc
       ELSE IF parallel
            THEN /\ fut' = [fut EXCEPT ![fidx] = "submitted"]
                 /\ UNCHANGED bpc
            ELSE /\ fut' = [fut EXCEPT ![fidx] = "called"]
                 /\ bpc' = "in_call"
    /\ UNCHANGED <<parallel, objs, nextobj, outdict, fitted, table, logged, pvars>>

\* the for loop is over, lines 260-262
EndLoop ==
    /\ bpc = "loop"
    /\ fidx > NumFiles
    /\ bpc' = IF parallel THEN "shutdown" ELSE "done"
    /\ UNCHANGED <<parallel, fidx, fut, objs, nextobj, outdict, fitted, table, logged, pvars>>

\* a worker of the pool takes the oldest submitted call
PoolStart(f) ==
    /\ parallel
    /\ fut[f] = "submitted"
    /\ \A g \in Files : g < f => fut[g] # "submitted"
    /\ Cardinality(Running) < PoolSize
    /\ fut' = [fut EXCEPT ![f] = "called"]
    /\ UNCHANGED <<bpc, parallel, fidx, objs, nextobj, outdict, fitted, table, logged, pvars>>

\* what the caller of proc_desi_wrapper sees when the call returns
Returned == IF parallel THEN bpc ELSE "loop"

\* proc_desi lines 109-141: valid_file, the reads and the empty outdict
OpenFile(f) ==
    /\ fut[f] = "called"
    /\ IF objs[f].valid
       THEN /\ fut' = [fut EXCEPT ![f] = "objects"]
            /\ nextobj' = [nextobj EXCEPT ![f] = 1]
            /\ outdict' = [outdict EXCEPT ![f] = EmptyOutdict]
            /\ UNCHANGED bpc
       ELSE /\ fut' = [fut EXCEPT ![f] = "returned"]
            /\ bpc' = Returned
            /\ UNCHANGED <<nextobj, outdict>>
    /\ UNCHANGED <<parallel, fidx, objs, fitted, table, logged, pvars>>

\* proc_desi lines 142-198: one pass of the for loop over the objects
FitObject(f) ==
    /\ fut[f] = "objects"
    /\ nextobj[f] <= Len(objs[f].objects)
    /\ LET o == objs[f].objects[nextobj[f]]
           keys == ResultKeys(ParamDictOf(o), {})
           appended == [c \in Columns |->
                          IF c = "vsini" /\ "vsini" \notin keys
                          THEN outdict[f][c] ELSE outdict[f][c] + 1]
       IN  IF ~o.targeted
           THEN /\ nextobj' = [nextobj EXCEPT ![f] = @ + 1]
                /\ UNCHANGED <<fut, outdict, fitted>>
           ELSE IF o.raises
           THEN /\ fut' = [fut EXCEPT ![f] = "raising"]
                /\ UNCHANGED <<nextobj, outdict, fitted>>
           ELSE /\ fitted' = [fitted EXCEPT ![f] = @ + 1]
                /\ outdict' = [outdict EXCEPT ![f] = appended]
                /\ IF "vsini" \in keys
                   THEN /\ nextobj' = [nextobj EXCEPT ![f] = @ + 1]
                        /\ UNCHANGED fut
                   ELSE /\ fut' = [fut EXCEPT ![f] = "raising"]
                        /\ UNCHANGED nextobj
    /\ UNCHANGED <<bpc, parallel, fidx, objs, table, logged, pvars>>

\* proc_desi lines 199-200: the table is built from outdict and written
WriteTable(f) ==
    /\ fut[f] = "objects"
    /\ nextobj[f] > Len(objs[f].objects)
    /\ table' = [table EXCEPT ![f] = [written |-> TRUE, cols |-> outdict[f]]]
    /\ fut' = [fut EXCEPT ![f] = "returned"]
    /\ bpc' = Returned
    /\ UNCHANGED <<parallel, fidx, objs, nextobj, outdict, fitted, logged, pvars>>

\* proc_desi_wrapper lines 206-208: print the arguments and raise again
WrapperCatch(f) ==
    /\ fut[f] = "raising"
    /\ logged' = logged \cup {f}
    /\ fut' = [fut EXCEPT ![f] = "raised"]
    /\ bpc' = IF parallel THEN bpc ELSE "aborted"
    /\ UNCHANGED <<parallel, fidx, objs, nextobj, outdict, fitted, table, pvars>>

\* line 262: shutdown(wait=True) returns once every future has finished
Shutdown ==
    /\ bpc = "shutdown"
    /\ \A f \in Files : fut[f] \in {"skipped", "returned", "raised"}
    /\ bpc' = "done"
    /\ UNCHANGED <<parallel, fidx, fut, objs, nextobj, outdict, fitted, table, logged, pvars>>

\* lines 263-267: KeyboardInterrupt while waiting; futures not yet started are
\* cancelled, the others run on
Interrupt ==
    /\ bpc = "shutdown"
    /\ fut' = [f \in Files |-> IF fut[f] = "submitted" THEN "cancelled" ELSE fut[f]]
    /\ bpc' = "interrupted"
    /\ UNCHANGED <<parallel, fidx, objs, nextobj, outdict, fitted, table, logged, pvars>>

InitBatch ==
    /\ ProcessIdle
    /\ bpc = "loop"
    /\ parallel \in BOOLEAN
    /\ fidx = 1
    /\ fut = [f \in Files |-> "pending"]
    /\ objs \in [Files -> FileKinds]
    /\ nextobj = [f \in Files |-> 0]
    /\ outdict = [f \in Files |-> EmptyOutdict]
    /\ fitted = [f \in Files |-> 0]
    /\ table = [f \in Files |-> NoTable]
    /\ logged = {}

NextBatch ==
    \/ NextFile
    \/ EndLoop
    \/ Shutdown
    \/ Interrupt
    \/ \E f \in Files : PoolStart(f)
    \/ \E f \in Files : OpenFile(f)
    \/ \E f \in Files : FitObject(f)
    \/ \E f \in Files : WriteTable(f)
    \/ \E f \in Files : WrapperCatch(f)

SpecBatch == InitBatch /\ [][NextBatch]_vars

-----------------------------------------------------------------------------
(* paramMapper on its own, vel_fit.py lines 84-92 and 103-140: the state after
   the seed, with any parameter dictionary, any set of fixed parameters and any
   vector the optimizer may hand to func *)

\* fixParam: nothing, vsini, some or all of the physical parameters
MapperFixParams ==
    { {}, {"vsini"}, {"feh"}, {"feh", "vsini"}, {"logg", "alpha"},
      {"logg", "teff", "feh", "alpha"}, {"logg", "teff", "feh", "alpha", "vsini"} }

\* (min_vsini, max_vsini): the defaults and a narrow range
MapperVsiniBounds == { <<DefaultMinVsini, DefaultMaxVsini>>, <<100, 500>> }

\* the seed velocities
MapperSeeds == { -5000, 1234 }

\* the values of the elements of p; 693 and 1609 are np.log of 2 and 5 km/s
PVals == { -5000, 693, 1609 }

\* the vectors of length n over PVals
Vectors(n) == [1..n -> PVals]

\* len(startParam), lines 130-137
StartLen(fitV, fixP) ==
    1 + (IF fitV THEN 1 ELSE 0)
      + Cardinality({i \in 1..Len(specParams) : specParams[i] \notin fixP})

InitMapper ==
    /\ pc = "seeded"
    /\ config = Config(EmptyMap)
    /\ paramDict0 \in ParamDicts
    /\ fixParam \in MapperFixParams
    /\ min_vel = F(DefaultMinVel) /\ max_vel = F(DefaultMaxVel)
    /\ vel_step0 = DefaultVelStep0 /\ min_vel_step = DefaultMinVelStep
    /\ \E b \in MapperVsiniBounds : min_vsini = b[1] /\ max_vsini = b[2]
    /\ fitVsini = FitVsini(paramDict0, fixParam)
    /\ rot_params = RotParams(paramDict0)
    /\ \E v \in MapperSeeds : best_vel = F(v)
    /\ res_x = <<>>
    /\ best_param = Raise("")
    /\ ret = EmptyMap
    /\ vel_step = F(0)
    /\ vels_grid = <<>>
    /\ res1_vel_err = F(0)
    /\ iters = 0
    /\ hessian = ""
    /\ warned = FALSE
    /\ called = {"get_chisq"}
    /\ error = ""
    /\ BatchIdle

\* pdict = paramMapper(p), line 140
Map(p) ==
    LET pdict == paramMapper(p, fitVsini, paramDict0, fixParam, min_vsini, max_vsini)
    IN  /\ res_x' = p
        /\ best_param' = pdict
        /\ IF pdict.ok
           THEN pc' = "mapped" /\ UNCHANGED error
           ELSE Fail(pdict.err)
        /\ UNCHANGED <<config, paramDict0, fixParam, min_vel, max_vel, vel_step0,
                       min_vel_step, min_vsini, max_vsini, fitVsini, rot_params,
                       best_vel, ret, vel_step, vels_grid, res1_vel_err, iters,
                       hessian, warned, called, bvars>>

\* func(startParam): the first call of the optimizer, lines 130-140
MapStartVector ==
    /\ pc = "seeded"
    /\ Map(StartParam(best_vel.v, fitVsini, paramDict0, fixParam, min_vsini, max_vsini))

\* func(p) for any vector, of the length of startParam or one off it
MapVector ==
    /\ pc = "seeded"
    /\ \E n \in (StartLen(fitVsini, fixParam) - 1)..(StartLen(fitVsini, fixParam) + 1) :
         \E p \in Vectors(n) : Map(p)

NextMapper ==
    \/ MapStartVector
    \/ MapVector

SpecMapper == InitMapper /\ [][NextMapper]_vars

-----------------------------------------------------------------------------
(* The two models agree: what process returns has the keys proc_desi is
   modelled to find *)

ResultKeysAgree == pc = "done" => DOMAIN ret = ResultKeys(paramDict0, fixParam)

\* while the step stays a defined number, a pass that does not leave the loop
\* shrinks it to at most 0.8 of itself
StepShrinks ==
    [][(pc = "scan" /\ pc' = "scan" /\ ~vel_step.nan /\ ~vel_step'.nan) =>
          10 * vel_step'.v <= 8 * vel_step.v]_vars

-----------------------------------------------------------------------------
(* Properties *)

Range(q) == {q[i] : i \in 1..Len(q)}
StrictlyIncreasing(q) == \A i \in 1..(Len(q) - 1) : q[i] < q[i + 1]
Eligible(f) == ~objs[f].skip /\ objs[f].valid
\* object i of file f has gone through the body of the loop of proc_desi, to
\* its end or to the exception that ended it
Handled(f, i) ==
    \/ i < nextobj[f]
    \/ i = nextobj[f] /\ fut[f] \in {"raising", "raised"}
Targeted(f) == {i \in 1..Len(objs[f].objects) : objs[f].objects[i].targeted}
AfterScan == pc \in {"scanned", "hessian", "done"}

\* C1: in batch processing one object's failure never aborts the batch: it is
\* logged, proc_many is not aborted by it, and when proc_many is done every
\* object of every file that was to be processed has been handled.
C1_FailureNeverAbortsBatch ==
    /\ bpc # "aborted"
    /\ \A f \in Files : fut[f] = "raised" => f \in logged
    /\ bpc = "done" =>
         \A f \in Files : Eligible(f) =>
           \A i \in 1..Len(objs[f].objects) : Handled(f, i)

\* C2: with no configuration, process fails with 'Config must be provided' and
\* nothing else, before any grid search, minimization or chi-square evaluation.
C2_NoConfigIsConfigurationError ==
    (config.none /\ pc # "start") =>
        /\ pc = "failed"
        /\ error = "Exception: Config must be provided"
        /\ called = {}

OptionUsed(o) ==
    CASE o = "min_vel" -> min_vel.v
      [] o = "max_vel" -> max_vel.v
      [] o = "vel_step0" -> vel_step0
      [] o = "max_vsini" -> max_vsini
      [] o = "min_vsini" -> min_vsini
      [] o = "min_vel_step" -> min_vel_step

\* C3: once the options are read, each one has its configured value if the
\* configuration holds it (0 included) and its default only if it is absent.
C3_ConfiguredValueWins ==
    pc = "config_read" =>
        \A o \in Options :
            OptionUsed(o) = IF o \in DOMAIN config.map THEN config.map[o] ELSE Default(o)

\* C4: the velocity process returns lies within [min_vel, max_vel] as read
\* from the configuration, is the velocity at which the returned chi-square
\* and model were evaluated, and a velocity the minimizer left outside the
\* interval was warned about.
C4_ReturnedVelocityClamped ==
    pc = "done" =>
        /\ ReadOption(config, "min_vel") <= ret["vel"].v
        /\ ret["vel"].v <= ReadOption(config, "max_vel")
        /\ ret["vel"] = ret["chisq"]
        /\ ret["vel"] = ret["yfit"]
        /\ (best_param.vel # ret["vel"].v => warned)

\* C5: the adaptive scan always terminates: it never reaches MaxScanIters
\* passes still looping, and it never ends in an exception of its own; it
\* ends by leaving the loop.
C5_ScanTerminates ==
    /\ pc = "scan" => iters < MaxScanIters
    /\ ~(pc = "failed" /\ iters > 0 /\ error = "ValueError")

\* C6: when the Hessian is singular or its inverse has a negative diagonal
\* entry, process still returns velocity, parameters, chi-square and model,
\* and hands back no parameter uncertainty (neither a number nor a NaN).
C6_SingularHessianDegrades ==
    hessian \in {"singular", "negative_diagonal"} =>
        /\ pc = "done"
        /\ {"vel", "param", "chisq", "yfit"} \subseteq DOMAIN ret
        /\ "param_err" \notin DOMAIN ret

VsiniInputs == VsiniGrid \cup {-100, 0, 100000}

\* C7: for 0 < min_vsini <= max_vsini the round trip of the vsini transform is
\* the clip to [min_vsini, max_vsini] for every v, and the self-check of
\* process on that round trip passes.
C7_VsiniRoundTrip ==
    (pc \notin {"start", "config_read"} /\ ~config.none
     /\ 0 < min_vsini /\ min_vsini <= max_vsini) =>
        /\ \A v \in VsiniInputs :
              mapVsiniInv(mapVsini(v, min_vsini, max_vsini), min_vsini, max_vsini)
                  = NpClip(v, min_vsini, max_vsini)
        /\ ~(pc = "failed" /\ error = "AssertionError")

\* C8: a file none of whose fits raises gets, once proc_desi has ended, a
\* table with one row per fitted object and as many entries in every column,
\* an object without a seed vsini included (it is fitted without rotation).
C8_OneRowPerFittedObject ==
    \A f \in Files :
        (/\ Eligible(f)
         /\ fut[f] \in {"returned", "raised"}
         /\ \A i \in Targeted(f) : ~objs[f].objects[i].raises) =>
            /\ table[f].written
            /\ \A c \in Columns : table[f].cols[c] = Cardinality(Targeted(f))
            /\ fitted[f] = Cardinality(Targeted(f))
            /\ \A i \in Targeted(f) :
                 ~objs[f].objects[i].best_vsini.some =>
                     RotParams(ParamDictOf(objs[f].objects[i])) = NoneV

\* C9 as stated: the scan is left only when the step is both smaller than
\* vel_err / crit_ratio and below min_vel_step.
C9_BothConditions ==
    AfterScan =>
        /\ FLt(F(crit_ratio * vel_step.v), res1_vel_err)
        /\ FLt(vel_step, F(min_vel_step))

\* C9 as amended: the scan is left as soon as the step is smaller than
\* vel_err / crit_ratio or below min_vel_step; the vel_err process returns is
\* the one of the last grid, whose points are vel_step apart.
C9_EitherCondition ==
    /\ AfterScan =>
         /\ ~vel_step.nan
         /\ \/ (~res1_vel_err.nan /\ crit_ratio * vel_step.v < res1_vel_err.v)
            \/ vel_step.v < min_vel_step
         /\ \A i \in 1..(Len(vels_grid) - 1) : vels_grid[i + 1] - vels_grid[i] = vel_step.v
    /\ pc = "done" => ret["vel_err"] = res1_vel_err

\* C9's case: the scan was left on the first condition alone, with a step not
\* below the floor
C9_Witness ==
    /\ pc = "done"
    /\ vel_step.v >= min_vel_step
    /\ crit_ratio * vel_step.v < res1_vel_err.v
    /\ Len(vels_grid) > 2

\* C10: every pass of the scan over defined numbers builds a strictly
\* increasing grid that holds best_vel and lies within the current
\* [min_vel, max_vel]; min_vel never decreases, max_vel never increases and
\* best_vel stays between them.
C10_GridAroundBestVel ==
    [][(/\ pc = "scan" /\ iters' = iters + 1 /\ pc' # "failed"
        /\ ~vel_step.nan /\ ~min_vel.nan /\ ~max_vel.nan
        /\ ~res1_vel_err'.nan) =>
           /\ StrictlyIncreasing(vels_grid')
           /\ best_vel.v \in Range(vels_grid')
           /\ \A x \in Range(vels_grid') : min_vel.v <= x /\ x <= max_vel.v
           /\ min_vel'.v >= min_vel.v
           /\ max_vel'.v <= max_vel.v
           /\ min_vel'.v <= best_vel'.v /\ best_vel'.v <= max_vel'.v]_vars

\* the position in p of the i-th declared parameter when it is free: after the
\* velocity, the vsini element if vsini is fit, and the free parameters before it
PosInVector(i) ==
    1 + (IF FitVsini(paramDict0, fixParam) THEN 1 ELSE 0)
      + Cardinality({j \in 1..i : specParams[j] \notin fixParam})

\* paramMapper has been applied to a vector of the length of the start vector
MappedFullVector ==
    /\ pc \in {"mapped", "failed"}
    /\ Len(res_x) = StartLen(FitVsini(paramDict0, fixParam), fixParam)

\* C11: for every paramDict0, fixParam and vector p of length 1 + (1 if vsini is
\* fit) + (number of free physical parameters), paramMapper consumes all of p
\* without raising and returns vel = p[0]; vsini = mapVsiniInv of the next
\* element if vsini is present and not fixed, paramDict0's vsini if it is fixed,
\* and None with rot_params None if vsini is absent from paramDict0, whether or
\* not 'vsini' is in fixParam; and the parameters in declared order, the fixed
\* ones from paramDict0 and the free ones from p in order.  On the start vector
\* it gives back the seed velocity and paramDict0's parameters.
C11_ParamMapperSplitsVector ==
    MappedFullVector =>
        /\ best_param.ok
        /\ best_param.vel = res_x[1]
        /\ IF "vsini" \notin DOMAIN paramDict0
           THEN best_param.vsini = NoneV /\ best_param.rot_params = NoneV
           ELSE IF "vsini" \in fixParam
                THEN best_param.vsini = Some(paramDict0["vsini"])
                ELSE best_param.vsini = Some(mapVsiniInv(res_x[2], min_vsini, max_vsini))
        /\ Len(best_param.params) = Len(specParams)
        /\ \A i \in 1..Len(specParams) :
             best_param.params[i] = IF specParams[i] \in fixParam
                                    THEN paramDict0[specParams[i]]
                                    ELSE res_x[PosInVector(i)]
        /\ res_x = StartParam(best_vel.v, fitVsini, paramDict0, fixParam,
                              min_vsini, max_vsini)
           => /\ best_param.vel = best_vel.v
              /\ best_param.params = [i \in 1..Len(specParams) |-> paramDict0[specParams[i]]]

====
